---- MODULE Spec2Model ----
(***************************************************************************)
(* TitanCNA workflow of bcbio (bcbio/structural/titancna.py): the run()    *)
(* driver, the 3 x 3 sweep of the solver, the selection of the optimal     *)
(* solution and the translation of the segments into VCF rows.             *)
(*                                                                         *)
(* The file system is modelled as the final paths the workflow writes,     *)
(* each with a state (absent / partial / complete) and a modification      *)
(* time taken from a logical clock that advances with every write.         *)
(***************************************************************************)
EXTENDS Integers, Sequences, FiniteSets, TLC

VARIABLES
    items,          \* the list of samples handed to run()
    vrn_files,      \* heterogeneity.get_variants(tumor): the variant-call sources
    het_sites,      \* number of heterozygous sites the variant source yields
    segs,           \* rows of the <path>.segs.txt table handed to _segs_to_vcf
    vcf_text,       \* what _segs_to_vcf wrote for them
    cnr,            \* modification time of the normalized depth (.cnr) input
    fs,             \* top-level files of the work directory
    cell_fs,        \* files of the ploidy directories, per sweep cell
    dirs,           \* directories created so far
    solution,       \* the cell optimalClusters.txt names in its path column
    clock,          \* logical time, the next modification time
    tx,             \* the temporary file of the file_transaction in progress
    tmp_dir,        \* the tx_tmpdir of the sweep cell in progress
    stale_tmp,      \* what a crashed process left behind in temporary storage
    pc,             \* position of the run in progress, "idle" between runs
    pi,             \* index into Ploidies of the sweep loop
    ki,             \* index into NumClusters of the sweep loop
    out_dir,        \* the local out_dir of run()
    ploidy_outdirs, \* the local ploidy_outdirs of run()
    inflight,       \* subprocesses running
    ret,            \* what run() returned
    outcome,        \* how the last run ended
    calls,          \* solver invocations of this run, per cell
    failed,         \* tool failures and crashes of this run
    sel_calls,      \* selector command lines of this run
    written,        \* final paths this run made visible
    moved,          \* every destination a cell's move reached, with the cell
    prev,           \* how the run before this one ended
    given,          \* the list as it was when this run was called
    runs,           \* runs started
    faults,         \* tool failures and crashes so far
    touches         \* changes of the .cnr input so far

vars == <<items, vrn_files, het_sites, segs, vcf_text, cnr, fs, cell_fs, dirs, solution, clock, tx, tmp_dir,
          stale_tmp, pc, pi, ki, out_dir, ploidy_outdirs, inflight, ret,
          outcome, calls, failed, sel_calls, written, moved, prev, given, runs, faults, touches>>

(***************************************************************************)
(* Bounds of the model.                                                    *)
(***************************************************************************)
MaxRuns == 3
MaxFaults == 1
MaxTouches == 1
MaxHetSites == 2
MaxSegs == 2

(***************************************************************************)
(* The sweep grid of run().                                                *)
(***************************************************************************)
Ploidies == <<2, 3, 4>>
NumClusters == <<1, 2, 3>>
Cells == {<<Ploidies[i], NumClusters[j]>> : i \in DOMAIN Ploidies, j \in DOMAIN NumClusters}

\* position of a cell in the order the sweep visits them
CellIndex(c) ==
    LET i == CHOOSE x \in DOMAIN Ploidies : Ploidies[x] = c[1]
        j == CHOOSE y \in DOMAIN NumClusters : NumClusters[y] = c[2]
    IN  (i - 1) * Len(NumClusters) + j

\* _sv_workdir: <work>/structural/<sample>/titancna
WorkDir == <<"titancna", 0>>
\* the work directory itself, where a cell is expected
Top == <<0, 0>>
\* os.path.join(work_dir, "run_ploidy%s" % ploidy)
PloidyDir(ploidy) == <<"run_ploidy", ploidy>>
\* "%s_cluster%02d" % (sample, num_clusters), inside its ploidy directory
ClusterDir(ploidy, num_clusters) == <<"run_ploidy", ploidy, "cluster", num_clusters>>

\* "%s" % n and "%02d" % n for the numbers of the grid
Digit == <<"0", "1", "2", "3", "4", "5", "6", "7", "8", "9">>
RECURSIVE str(_)
str(n) == IF n < 10 THEN Digit[n + 1] ELSE str(n \div 10) \o Digit[(n % 10) + 1]
pad02(n) == IF n < 10 THEN "0" \o str(n) ELSE str(n)

\* the names of lines 95-96: "run_ploidy%s" % ploidy under work_dir, and
\* cluster_dir = "%s_cluster%02d" % (sample, num_clusters)
ploidy_dir(ploidy) == <<WorkDir, "run_ploidy" \o str(ploidy)>>
cluster_dir(sample, num_clusters) == sample \o "_cluster" \o pad02(num_clusters)

\* shutil.move(fname, ploidy_dir) for the fname of the glob that ends in suffix:
\* the file keeps its name in the directory it is moved into
glob_move_dest(sample, ploidy, num_clusters, suffix) ==
    <<ploidy_dir(ploidy), cluster_dir(sample, num_clusters) \o "." \o suffix>>

\* variant: the plot is moved into the ploidy directory under the name it has
rplots_dest_same_name(sample, ploidy, num_clusters) ==
    <<ploidy_dir(ploidy), "Rplots.pdf">>

\* os.path.join(ploidy_dir, "%s.Rplots.pdf" % cluster_dir)
rplots_dest(sample, ploidy, num_clusters) ==
    <<ploidy_dir(ploidy), cluster_dir(sample, num_clusters) \o ".Rplots.pdf">>

\* out_file = "%s.vcf" % utils.splitext_plus(in_file)[0] for the segs.txt of a
\* cell, in_file being "%s.segs.txt" % solution["path"]
segs_vcf(sample, ploidy, num_clusters) ==
    <<ploidy_dir(ploidy), cluster_dir(sample, num_clusters) \o ".segs" \o ".vcf">>

(***************************************************************************)
(* Files.                                                                  *)
(***************************************************************************)
Absent == [st |-> "absent", mt |-> 0]
Complete(t) == [st |-> "complete", mt |-> t]
Partial(t) == [st |-> "partial", mt |-> t]
\* a file that has been opened for writing and holds no byte yet
Empty(t) == [st |-> "empty", mt |-> t]

TopFiles == {"cn", "het", "optimalClusters.txt"}
\* what the solver leaves in --outDir under the cell's prefix
SolverOutputs == {"titan.txt", "segs.txt"}
CellFiles == SolverOutputs \cup {"Rplots.pdf"}
\* what _segs_to_vcf makes of a cell's segs.txt, under the same prefix
VcfFiles == {"segs.vcf", "segs.vcf.gz"}
PrefixFiles == CellFiles \cup VcfFiles

\* os.path.exists, the test shutil.move makes of its destination
path_exists(f) == f.st # "absent"
\* utils.file_exists: the path exists and its size is above zero
file_exists(f) == f.st \notin {"absent", "empty"}
\* utils.file_uptodate(fname, cmp_fname), cmp given by its modification time
file_uptodate(f, cmp_mt) == file_exists(f) /\ f.mt >= cmp_mt

(***************************************************************************)
(* Samples.                                                                *)
(***************************************************************************)
Tumor(has_sv, sv) == [name |-> "S1", phenotype |-> "tumor", has_sv |-> has_sv, sv |-> sv]
Normal == [name |-> "N1", phenotype |-> "normal", has_sv |-> FALSE, sv |-> <<>>]
ExistingCall == [variantcaller |-> "cnvkit", vrn_file |-> "cnvkit.vcf.gz"]

InputItems ==
    { <<Normal>>,
      <<Tumor(FALSE, <<>>)>>,
      <<Tumor(TRUE, <<ExistingCall>>), Normal>> }

\* vcfutils.get_paired: the tumor and the normal of the batch, None without a tumor
HasPhenotype(its, ph) == \E i \in DOMAIN its : its[i].phenotype = ph
ByPhenotype(its, ph) == its[CHOOSE i \in DOMAIN its : its[i].phenotype = ph]
get_paired(its) ==
    IF HasPhenotype(its, "tumor")
    THEN [paired |-> TRUE,
          tumor_data |-> ByPhenotype(its, "tumor"),
          has_normal |-> HasPhenotype(its, "normal")]
    ELSE [paired |-> FALSE, tumor_data |-> Normal, has_normal |-> FALSE]

NoReturn == [returned |-> FALSE, same |-> FALSE, value |-> <<>>]
Return(same, value) == [returned |-> TRUE, same |-> same, value |-> value]

NoTmpDir == [exists |-> FALSE, files |-> {}, mt |-> 0, moving |-> ""]

\* transaction.tx_tmpdir: entering the with-block makes a new, empty directory;
\* leaving it, by its end or by an exception, removes the directory
tx_tmpdir_enter == [exists |-> TRUE, files |-> {}, mt |-> 0, moving |-> ""]
tx_tmpdir_exit == NoTmpDir

\* transaction.file_transaction: entering the with-block makes the place of the
\* temporary file, which holds nothing yet; leaving it leaves no temporary
file_transaction_enter(t) == Empty(t)
file_transaction_exit == Absent
NoCalls == [c \in Cells |-> 0]
NoOutcome == [kind |-> "none", cell |-> <<Ploidies[1], NumClusters[1]>>, touched |-> FALSE]

(***************************************************************************)
(* VCF conversion, lines 145-204.                                          *)
(***************************************************************************)
\* _vcf_header: the IDs its ##INFO, ##ALT and ##FORMAT lines declare
_vcf_header ==
    { <<"fileformat", "VCFv4.2">>, <<"source", "TitanCNA">>,
      <<"INFO", "END">>, <<"INFO", "SVTYPE">>, <<"INFO", "FOLD_CHANGE_LOG">>,
      <<"INFO", "CN">>, <<"INFO", "MajorCN">>, <<"INFO", "MinorCN">>,
      <<"ALT", "DEL">>, <<"ALT", "DUP">>, <<"ALT", "LOS">>, <<"ALT", "CNV">>,
      <<"FORMAT", "GT">> }

\* variant: hemizygous deletion LOH is filed with the LOH events
_get_svtype_dloh_as_loh(call) ==
    IF call \in {"HOMD"} THEN "DEL"
    ELSE IF call \in {"ALOH", "GAIN", "ASCNA", "BCNA", "UBCNA"} THEN "DUP"
    ELSE IF call \in {"NLOH", "DLOH"} THEN "LOH"
    ELSE "CNV"

\* _get_svtype(call)
_get_svtype(call) ==
    IF call \in {"HOMD", "DLOH"} THEN "DEL"
    ELSE IF call \in {"ALOH", "GAIN", "ASCNA", "BCNA", "UBCNA"} THEN "DUP"
    ELSE IF call \in {"NLOH"} THEN "LOH"
    ELSE "CNV"

\* sep.join(strs)
RECURSIVE join(_, _)
join(strs, sep) ==
    IF strs = <<>> THEN ""
    ELSE IF Len(strs) = 1 THEN strs[1]
    ELSE strs[1] \o sep \o join(Tail(strs), sep)

\* the body of the loop of _segs_to_vcf for one line, cur being
\* dict(zip(header, line.strip().split("\t")))
segs_row_to_vcf(cur) ==
    LET svtype == _get_svtype(cur["TITAN_call"])
        info == << <<"SVTYPE", svtype>>, <<"END", cur["End_Position.bp."]>>,
                   <<"CN", cur["Copy_Number"]>>, <<"MajorCN", cur["MajorCN"]>>,
                   <<"MinorCN", cur["MinorCN"]>>,
                   <<"FOLD_CHANGE_LOG", cur["Median_logR"]>> >>
        joined == join([i \in DOMAIN info |-> info[i][1] \o "=" \o info[i][2]], ";")
    IN  [info |-> info,
         out |-> <<cur["Chromosome"], cur["Start_Position.bp."], ".", "N",
                   "<" \o svtype \o ">", ".", ".", joined, "GT", "0/1">>]

\* what _segs_to_vcf writes: the header, the column line, one row per line
segs_to_vcf_text(rows, sample) ==
    [header |-> _vcf_header,
     columns |-> <<"#CHROM", "POS", "ID", "REF", "ALT", "QUAL", "FILTER", "INFO",
                   "FORMAT", sample>>,
     rows |-> [i \in DOMAIN rows |-> segs_row_to_vcf(rows[i])]]

\* the call codes of TitanCNA, and two it does not know
TitanCalls == {"HOMD", "DLOH", "NLOH", "HET", "ALOH", "GAIN", "ASCNA", "BCNA", "UBCNA"}
CallCodes == TitanCalls \cup {"XYZ", "homd"}

SegColumns == {"Chromosome", "Start_Position.bp.", "End_Position.bp.", "TITAN_call",
               "Copy_Number", "MajorCN", "MinorCN", "Median_logR"}
SegRow(call) ==
    [col \in SegColumns |->
        CASE col = "Chromosome" -> "1"
          [] col = "Start_Position.bp." -> "101"
          [] col = "End_Position.bp." -> "200"
          [] col = "TITAN_call" -> call
          [] col = "Copy_Number" -> "2"
          [] col = "MajorCN" -> "1"
          [] col = "MinorCN" -> "1"
          [] col = "Median_logR" -> "0.1"]
\* the segs.txt the solver leaves for the solution in the runs of Spec
RunSegs == <<SegRow("DLOH"), SegRow("NLOH")>>
SegTables ==
    UNION {[1..n -> {SegRow(call) : call \in CallCodes}] : n \in 0..MaxSegs}

(***************************************************************************)
(* Initial state: an empty work directory and a batch to analyse.          *)
(***************************************************************************)
NotWritten == [header |-> {}, columns |-> <<>>, rows |-> <<>>]

InitWorkDir ==
    /\ cnr = 1
    /\ fs = [f \in TopFiles |-> Absent]
    /\ cell_fs = [c \in Cells |-> [f \in PrefixFiles |-> Absent]]
    /\ dirs = {}
    /\ solution = <<>>
    /\ clock = 2
    /\ tx = Absent
    /\ tmp_dir = NoTmpDir
    /\ stale_tmp = FALSE
    /\ pc = "idle"
    /\ pi = 1
    /\ ki = 1
    /\ out_dir = <<>>
    /\ ploidy_outdirs = <<>>
    /\ inflight = {}
    /\ ret = NoReturn
    /\ outcome = NoOutcome
    /\ calls = NoCalls
    /\ failed = {}
    /\ sel_calls = <<>>
    /\ written = {}
    /\ moved = {}
    /\ prev = NoOutcome
    /\ given = items
    /\ runs = 0
    /\ faults = 0
    /\ touches = 0

Init ==
    /\ items \in InputItems
    /\ vrn_files \in {<<>>, <<[variantcaller |-> "vardict"]>>}
    /\ het_sites \in 0..MaxHetSites
    /\ segs = RunSegs
    /\ vcf_text = NotWritten
    /\ InitWorkDir

(***************************************************************************)
(* Control helpers.                                                        *)
(***************************************************************************)
\* dd.get_sample_name(data) of the tumor
sample_name == get_paired(items).tumor_data.name

\* the cell the sweep loop is at
Cur == <<Ploidies[pi], NumClusters[ki]>>

\* run() is left, by a return or by an exception (r = NoReturn)
EndRun(kind, r) ==
    /\ pc' = "idle"
    /\ outcome' = [kind |-> kind, cell |-> Cur, touched |-> FALSE]
    /\ ret' = r
    /\ inflight' = {}

\* an exception on its way out of run() leaves the with-blocks it was raised
\* in: file_transaction and tx_tmpdir remove their temporaries
LeaveWithBlocks ==
    /\ tx' = file_transaction_exit
    /\ tmp_dir' = tx_tmpdir_exit

\* variant: _run_titancna returns out_dir, the prefix of the cell
run_titancna_result_out_dir(ploidy, num_clusters) == ClusterDir(ploidy, num_clusters)

\* _run_titancna returns ploidy_dir
run_titancna_result(ploidy, num_clusters) == PloidyDir(ploidy)

\* variant: ploidy_outdirs.append sits in the inner loop
LoopNextAppendEach ==
    LET returned == run_titancna_result(Ploidies[pi], NumClusters[ki]) IN
    /\ out_dir' = returned
    /\ ploidy_outdirs' = Append(ploidy_outdirs, <<Ploidies[pi], returned>>)
    /\ IF ki < Len(NumClusters)
       THEN ki' = ki + 1 /\ pi' = pi /\ pc' = "run_titancna"
       ELSE IF pi < Len(Ploidies)
            THEN pi' = pi + 1 /\ ki' = 1 /\ pc' = "run_titancna"
            ELSE UNCHANGED <<pi, ki>> /\ pc' = "select_solution"

\* variant: _run_select_solution is called in the body of the outer loop
LoopNextSelectInLoop ==
    LET returned == run_titancna_result(Ploidies[pi], NumClusters[ki]) IN
    /\ out_dir' = returned
    /\ IF ki < Len(NumClusters)
       THEN /\ ki' = ki + 1
            /\ UNCHANGED <<pi, ploidy_outdirs>>
            /\ pc' = "run_titancna"
       ELSE /\ ploidy_outdirs' = Append(ploidy_outdirs, <<Ploidies[pi], returned>>)
            /\ UNCHANGED <<pi, ki>>
            /\ pc' = "select_solution"

\* the rest of the loop body of run() once _run_titancna has returned:
\* out_dir is assigned, and after the last cluster count it is appended
LoopNext ==
    LET returned == run_titancna_result(Ploidies[pi], NumClusters[ki]) IN
    /\ out_dir' = returned
    /\ IF ki < Len(NumClusters)
       THEN /\ ki' = ki + 1
            /\ UNCHANGED <<pi, ploidy_outdirs>>
            /\ pc' = "run_titancna"
       ELSE /\ ploidy_outdirs' = Append(ploidy_outdirs, <<Ploidies[pi], returned>>)
            /\ IF pi < Len(Ploidies)
               THEN pi' = pi + 1 /\ ki' = 1 /\ pc' = "run_titancna"
               ELSE UNCHANGED <<pi, ki>> /\ pc' = "select_solution"

\* what the steps of a run leave alone: its arguments, and the content of the
\* segment table, which the runs carry as a file state only
Inputs == <<vrn_files, het_sites, segs>>
Budget == <<runs, faults, touches>>
Loop == <<pi, ki, out_dir, ploidy_outdirs>>
Temp == <<tx, tmp_dir, stale_tmp>>
Disk == <<cnr, fs, cell_fs, dirs, solution, clock>>
Log == <<calls, failed, sel_calls, written, moved, prev, given>>

(***************************************************************************)
(* run(items), lines 19-29.                                                *)
(***************************************************************************)
StartRun ==
    /\ pc = "idle"
    /\ runs < MaxRuns
    /\ runs' = runs + 1
    /\ prev' = outcome
    /\ given' = items
    /\ pc' = "get_paired"
    /\ pi' = 1 /\ ki' = 1 /\ out_dir' = <<>> /\ ploidy_outdirs' = <<>>
    /\ ret' = NoReturn
    /\ UNCHANGED moved
    /\ calls' = NoCalls /\ failed' = {} /\ sel_calls' = <<>> /\ written' = {}
    /\ UNCHANGED <<Inputs, items, vcf_text, Disk, Temp, inflight, outcome, faults, touches>>

\* paired = vcfutils.get_paired(items); if not paired: return items
GetPaired ==
    /\ pc = "get_paired"
    /\ IF get_paired(items).paired
       THEN /\ pc' = "sv_workdir"
            /\ UNCHANGED <<outcome, ret, tx, tmp_dir, inflight>>
       ELSE EndRun("unpaired", Return(TRUE, items)) /\ UNCHANGED <<tx, tmp_dir>>
    /\ UNCHANGED <<Inputs, items, vcf_text, Disk, stale_tmp, Loop, Log, Budget>>

\* work_dir = _sv_workdir(paired.tumor_data)
SvWorkdir ==
    /\ pc = "sv_workdir"
    /\ dirs' = dirs \cup {WorkDir}
    /\ pc' = "titan_cn_file"
    /\ UNCHANGED <<Inputs, items, vcf_text, cnr, fs, cell_fs, solution, clock, Temp, Loop, inflight, ret, outcome,
                   Log, Budget>>

\* _titan_cn_file: the output is newer than the .cnr input, nothing is written
TitanCnFileUptodate ==
    /\ pc = "titan_cn_file"
    /\ file_uptodate(fs["cn"], cnr)
    /\ pc' = "titan_het_file"
    /\ UNCHANGED <<Inputs, items, vcf_text, Disk, Temp, Loop, inflight, ret, outcome, Log, Budget>>

\* _titan_cn_file: file_transaction hands out a temporary path, opened for writing
TitanCnFileOpen ==
    /\ pc = "titan_cn_file"
    /\ ~file_uptodate(fs["cn"], cnr)
    /\ tx' = Partial(clock)
    /\ pc' = "cn_write"
    /\ UNCHANGED <<Inputs, items, vcf_text, Disk, tmp_dir, stale_tmp, Loop, inflight, ret, outcome, Log,
                   Budget>>

\* _titan_cn_file: the chunks are written, the file is closed and the transaction
\* moves it to out_file
TitanCnFileCommit ==
    /\ pc = "cn_write"
    /\ fs' = [fs EXCEPT !["cn"] = Complete(clock)]
    /\ clock' = clock + 1
    /\ tx' = file_transaction_exit
    /\ UNCHANGED moved
    /\ written' = written \cup {<<Top, "cn">>}
    /\ pc' = "titan_het_file"
    /\ UNCHANGED <<Inputs, items, vcf_text, cnr, cell_fs, dirs, solution, tmp_dir, stale_tmp, Loop, inflight,
                   ret, outcome, calls, failed, sel_calls, prev, given, Budget>>

\* bubbletree.prep_vrn_file: the het-site table, written once
prep_vrn_file(f, t) == IF file_exists(f) THEN f ELSE Complete(t)

\* OutWriter: write_header once, write_row once per site
het_file_lines(sites) == 1 + sites

\* variant: the assertion on vrn_files is missing
TitanHetFileNoAssert ==
    /\ pc = "titan_het_file"
    /\ fs' = [fs EXCEPT !["het"] = prep_vrn_file(fs["het"], clock)]
    /\ clock' = IF file_exists(fs["het"]) THEN clock ELSE clock + 1
    /\ UNCHANGED moved
    /\ written' = IF file_exists(fs["het"]) THEN written ELSE written \cup {<<Top, "het">>}
    /\ pc' = "should_run"
    /\ UNCHANGED <<Inputs, items, vcf_text, cnr, cell_fs, dirs, solution, Temp, Loop, inflight, ret,
                   outcome, calls, failed, sel_calls, prev, given, Budget>>

\* _titan_het_file: assert vrn_files, then the het-site table is prepared
TitanHetFile ==
    /\ pc = "titan_het_file"
    /\ IF vrn_files # <<>>
       THEN /\ fs' = [fs EXCEPT !["het"] = prep_vrn_file(fs["het"], clock)]
            /\ clock' = IF file_exists(fs["het"]) THEN clock ELSE clock + 1
            /\ UNCHANGED moved
            /\ written' = IF file_exists(fs["het"]) THEN written ELSE written \cup {<<Top, "het">>}
            /\ pc' = "should_run"
            /\ UNCHANGED <<outcome, ret, tx, tmp_dir, inflight>>
       ELSE /\ EndRun("assertion_error", NoReturn)
            /\ UNCHANGED <<fs, clock, written, moved, tx, tmp_dir>>
    /\ UNCHANGED <<Inputs, items, vcf_text, cnr, cell_fs, dirs, solution, stale_tmp, Loop, calls,
                   failed, sel_calls, prev, given, Budget>>

\* variant: the comparison is off by one, a single data row passes
_should_run_off_by_one(lines) == \E i \in 0..(lines - 1) : i > 0

\* _should_run(het_file): some line of the file has index i > 1
_should_run(lines) == \E i \in 0..(lines - 1) : i > 1

\* if _should_run(het_file): ... else: return items
ShouldRun ==
    /\ pc = "should_run"
    /\ IF _should_run(het_file_lines(het_sites))
       THEN /\ pc' = "run_titancna"
            /\ UNCHANGED <<outcome, ret, tx, tmp_dir, inflight>>
       ELSE EndRun("skipped", Return(TRUE, items)) /\ UNCHANGED <<tx, tmp_dir>>
    /\ UNCHANGED <<Inputs, items, vcf_text, Disk, stale_tmp, Loop, Log, Budget>>

(***************************************************************************)
(* _run_titancna, lines 89-107.                                            *)
(***************************************************************************)
\* variant: the two arguments of file_uptodate are swapped
titan_uptodate_swapped(sentinel, cn_file) ==
    file_exists(sentinel) /\ file_uptodate(cn_file, sentinel.mt)

\* utils.file_uptodate(out_dir + ".titan.txt", cn_file)
titan_uptodate(sentinel, cn_file) == file_uptodate(sentinel, cn_file.mt)

\* ploidy_dir = utils.safe_makedir(...): the directory of the ploidy is made
\* before anything is tested
RunTitancnaMakedir ==
    /\ pc = "run_titancna"
    /\ dirs' = dirs \cup {PloidyDir(Cur[1])}
    /\ pc' = "titan_uptodate"
    /\ UNCHANGED <<Inputs, items, vcf_text, cnr, fs, cell_fs, solution, clock, Temp, Loop, inflight, ret,
                   outcome, Log, Budget>>

\* the sentinel is up to date with cn_file: nothing runs
RunTitancnaUptodate ==
    /\ pc = "titan_uptodate"
    /\ titan_uptodate(cell_fs[Cur]["titan.txt"], fs["cn"])
    /\ pc' = "run_titancna_return"
    /\ UNCHANGED <<Inputs, items, vcf_text, Disk, Temp, Loop, inflight, ret, outcome, Log, Budget>>

\* otherwise the with-block of tx_tmpdir is entered
RunTitancnaTmpdir ==
    /\ pc = "titan_uptodate"
    /\ ~titan_uptodate(cell_fs[Cur]["titan.txt"], fs["cn"])
    /\ tmp_dir' = tx_tmpdir_enter
    /\ pc' = "do_run"
    /\ UNCHANGED <<Inputs, items, vcf_text, Disk, tx, stale_tmp, Loop, inflight, ret,
                   outcome, Log, Budget>>

\* do.run starts titanCNA.R with --outDir tmp_dir and waits for it
DoRunTitan ==
    /\ pc = "do_run"
    /\ inflight' = inflight \cup {<<"titanCNA.R", Cur>>}
    /\ calls' = [calls EXCEPT ![Cur] = @ + 1]
    /\ pc' = "solver_wait"
    /\ UNCHANGED <<Inputs, items, vcf_text, Disk, Temp, Loop, ret, outcome, failed, sel_calls, written, moved,
                   prev, given, Budget>>

\* the solver exits with success: its outputs are in tmp_dir
SolverSucceeds ==
    /\ pc = "solver_wait"
    /\ tmp_dir' = [exists |-> TRUE, files |-> SolverOutputs \cup {"Rplots.pdf"}, mt |-> clock,
                   moving |-> ""]
    /\ clock' = clock + 1
    /\ inflight' = inflight \ {<<"titanCNA.R", Cur>>}
    /\ pc' = "glob_move"
    /\ UNCHANGED <<Inputs, items, vcf_text, cnr, fs, cell_fs, dirs, solution, tx, stale_tmp, Loop, ret, outcome, Log,
                   Budget>>

\* the solver exits with success but drew no plot: there is no Rplots.pdf
SolverSucceedsWithoutPlot ==
    /\ pc = "solver_wait"
    /\ faults < MaxFaults
    /\ faults' = faults + 1
    /\ failed' = failed \cup {<<"no_plot", Cur>>}
    /\ tmp_dir' = [exists |-> TRUE, files |-> SolverOutputs, mt |-> clock, moving |-> ""]
    /\ clock' = clock + 1
    /\ inflight' = inflight \ {<<"titanCNA.R", Cur>>}
    /\ pc' = "glob_move"
    /\ UNCHANGED <<Inputs, items, vcf_text, cnr, fs, cell_fs, dirs, solution, tx, stale_tmp, Loop, ret, outcome, calls, sel_calls, written, moved, prev, given,
                   runs, touches>>

\* variant: the failure of the solver is caught and the sweep goes on
SolverFailsIgnored ==
    /\ pc = "solver_wait"
    /\ faults < MaxFaults
    /\ faults' = faults + 1
    /\ failed' = failed \cup {<<"solver", Cur>>}
    /\ tmp_dir' = NoTmpDir
    /\ inflight' = {}
    /\ LoopNext
    /\ UNCHANGED <<Inputs, items, vcf_text, Disk, tx, stale_tmp, ret, outcome, calls, sel_calls, written, moved,
                   prev, given, runs, touches>>

\* variant: the directory comes from a plain mkdtemp and is removed only after
\* the moves, so the error of do.run leaves it behind
SolverFailsKeepsTmpDir ==
    /\ pc = "solver_wait"
    /\ faults < MaxFaults
    /\ faults' = faults + 1
    /\ failed' = failed \cup {<<"solver", Cur>>}
    /\ pc' = "idle"
    /\ outcome' = [kind |-> "solver_failed", cell |-> Cur, touched |-> FALSE]
    /\ ret' = NoReturn
    /\ inflight' = {}
    /\ UNCHANGED <<Inputs, items, vcf_text, Disk, Temp, Loop, calls, sel_calls, written, moved, prev, given, runs,
                   touches>>

\* the solver exits with failure: do.run raises, and the error leaves run()
SolverFails ==
    /\ pc = "solver_wait"
    /\ faults < MaxFaults
    /\ faults' = faults + 1
    /\ failed' = failed \cup {<<"solver", Cur>>}
    /\ EndRun("solver_failed", NoReturn)
    /\ LeaveWithBlocks
    /\ UNCHANGED <<Inputs, items, vcf_text, Disk, stale_tmp, Loop, calls, sel_calls, written, moved, prev, given, runs,
                   touches>>

\* shutil.move(fname, ploidy_dir) for one fname of the glob, in the order the
\* glob gave them: moving into a directory that holds the name already raises;
\* otherwise, tmp_dir being on the file system of the work directory, the file
\* is renamed
MoveArtifact ==
    /\ pc = "glob_move"
    /\ tmp_dir.moving = ""
    /\ \E f \in tmp_dir.files \cap SolverOutputs :
          IF path_exists(cell_fs[Cur][f])
          THEN /\ EndRun("move_failed", NoReturn)
               /\ LeaveWithBlocks
               /\ UNCHANGED <<cell_fs, written, moved>>
          ELSE /\ cell_fs' = [cell_fs EXCEPT ![Cur][f] = Complete(tmp_dir.mt)]
               /\ tmp_dir' = [tmp_dir EXCEPT !.files = @ \ {f}]
               /\ written' = written \cup {<<Cur, f>>}
               /\ moved' = moved \cup {<<glob_move_dest(sample_name, Cur[1], Cur[2], f), Cur>>}
               /\ UNCHANGED <<pc, outcome, ret, tx, inflight>>
    /\ UNCHANGED <<Inputs, items, vcf_text, cnr, fs, dirs, solution, clock, stale_tmp, Loop, calls,
                   failed, sel_calls, prev, given, Budget>>

\* the same call with tmp_dir on another file system: os.rename fails and
\* shutil.move copies, so the file at the final path is there, empty at first,
\* while it grows
MoveArtifactCopy ==
    /\ pc = "glob_move"
    /\ tmp_dir.moving = ""
    /\ \E f \in tmp_dir.files \cap SolverOutputs :
          /\ ~path_exists(cell_fs[Cur][f])
          /\ cell_fs' = [cell_fs EXCEPT ![Cur][f] = Empty(clock)]
          /\ tmp_dir' = [tmp_dir EXCEPT !.moving = f]
          /\ moved' = moved \cup {<<glob_move_dest(sample_name, Cur[1], Cur[2], f), Cur>>}
    /\ UNCHANGED <<Inputs, items, vcf_text, cnr, fs, dirs, solution, clock, tx, stale_tmp, pc,
                   Loop, inflight, ret, outcome, calls, failed, sel_calls, written, prev,
                   given, Budget>>

\* the first bytes of the copy are in the file at the final path
MoveArtifactCopying ==
    /\ pc = "glob_move"
    /\ tmp_dir.moving \in SolverOutputs
    /\ cell_fs[Cur][tmp_dir.moving].st = "empty"
    /\ cell_fs' = [cell_fs EXCEPT ![Cur][tmp_dir.moving] = Partial(clock)]
    /\ UNCHANGED <<Inputs, items, vcf_text, cnr, fs, dirs, solution, clock, Temp, pc,
                   Loop, inflight, ret, outcome, Log, Budget>>

\* the copy is complete, with the times of the source, and the source is removed
MoveArtifactCopied ==
    /\ pc = "glob_move"
    /\ tmp_dir.moving \in SolverOutputs
    /\ cell_fs[Cur][tmp_dir.moving].st = "partial"
    /\ cell_fs' = [cell_fs EXCEPT ![Cur][tmp_dir.moving] = Complete(tmp_dir.mt)]
    /\ tmp_dir' = [tmp_dir EXCEPT !.files = @ \ {tmp_dir.moving}, !.moving = ""]
    /\ written' = written \cup {<<Cur, tmp_dir.moving>>}
    /\ UNCHANGED moved
    /\ UNCHANGED <<Inputs, items, vcf_text, cnr, fs, dirs, solution, clock, tx, stale_tmp, pc,
                   Loop, inflight, ret, outcome, calls, failed, sel_calls, prev, given,
                   Budget>>

\* shutil.move(tmp_dir/Rplots.pdf, ploidy_dir/<cluster_dir>.Rplots.pdf): a rename
\* onto a file path, which replaces what is there and raises without a source
MoveRplots ==
    /\ pc = "glob_move"
    /\ tmp_dir.moving = ""
    /\ tmp_dir.files \cap SolverOutputs = {}
    /\ IF "Rplots.pdf" \in tmp_dir.files
       THEN /\ cell_fs' = [cell_fs EXCEPT ![Cur]["Rplots.pdf"] = Complete(tmp_dir.mt)]
            /\ written' = written \cup {<<Cur, "Rplots.pdf">>}
            /\ moved' = moved \cup {<<rplots_dest(sample_name, Cur[1], Cur[2]), Cur>>}
            /\ tmp_dir' = [tmp_dir EXCEPT !.files = @ \ {"Rplots.pdf"}]
            /\ pc' = "tmpdir_exit"
            /\ UNCHANGED <<outcome, ret, tx, inflight>>
       ELSE /\ EndRun("move_failed", NoReturn)
            /\ LeaveWithBlocks
            /\ UNCHANGED <<cell_fs, written, moved>>
    /\ UNCHANGED <<Inputs, items, vcf_text, cnr, fs, dirs, solution, clock, stale_tmp, Loop, calls,
                   failed, sel_calls, prev, given, Budget>>

\* the same call with tmp_dir on another file system: the plot is copied over
\* what is at the final path
MoveRplotsCopy ==
    /\ pc = "glob_move"
    /\ tmp_dir.moving = ""
    /\ tmp_dir.files \cap SolverOutputs = {}
    /\ "Rplots.pdf" \in tmp_dir.files
    /\ cell_fs' = [cell_fs EXCEPT ![Cur]["Rplots.pdf"] = Empty(clock)]
    /\ tmp_dir' = [tmp_dir EXCEPT !.moving = "Rplots.pdf"]
    /\ moved' = moved \cup {<<rplots_dest(sample_name, Cur[1], Cur[2]), Cur>>}
    /\ UNCHANGED <<Inputs, items, vcf_text, cnr, fs, dirs, solution, clock, tx, stale_tmp, pc,
                   Loop, inflight, ret, outcome, calls, failed, sel_calls, written, prev,
                   given, Budget>>

\* the first bytes of the copy of the plot are in the file at the final path
MoveRplotsCopying ==
    /\ pc = "glob_move"
    /\ tmp_dir.moving = "Rplots.pdf"
    /\ cell_fs[Cur]["Rplots.pdf"].st = "empty"
    /\ cell_fs' = [cell_fs EXCEPT ![Cur]["Rplots.pdf"] = Partial(clock)]
    /\ UNCHANGED <<Inputs, items, vcf_text, cnr, fs, dirs, solution, clock, Temp, pc,
                   Loop, inflight, ret, outcome, Log, Budget>>

\* the copy of the plot is complete, with the times of the source, and the
\* source is removed
MoveRplotsCopied ==
    /\ pc = "glob_move"
    /\ tmp_dir.moving = "Rplots.pdf"
    /\ cell_fs[Cur]["Rplots.pdf"].st = "partial"
    /\ cell_fs' = [cell_fs EXCEPT ![Cur]["Rplots.pdf"] = Complete(tmp_dir.mt)]
    /\ written' = written \cup {<<Cur, "Rplots.pdf">>}
    /\ UNCHANGED moved
    /\ tmp_dir' = [tmp_dir EXCEPT !.files = @ \ {"Rplots.pdf"}, !.moving = ""]
    /\ pc' = "tmpdir_exit"
    /\ UNCHANGED <<Inputs, items, vcf_text, cnr, fs, dirs, solution, clock, tx, stale_tmp, Loop,
                   inflight, ret, outcome, calls, failed, sel_calls, prev, given, Budget>>

\* the end of the with-block of tx_tmpdir, after the last move
TxTmpdirExit ==
    /\ pc = "tmpdir_exit"
    /\ tmp_dir' = tx_tmpdir_exit
    /\ pc' = "run_titancna_return"
    /\ UNCHANGED <<Inputs, items, vcf_text, Disk, tx, stale_tmp, Loop, inflight, ret, outcome,
                   Log, Budget>>

\* return ploidy_dir, and the rest of the loop body of run()
RunTitancnaReturn ==
    /\ pc = "run_titancna_return"
    /\ LoopNext
    /\ UNCHANGED <<Inputs, items, vcf_text, Disk, Temp, inflight, ret, outcome, Log, Budget>>

(***************************************************************************)
(* _run_select_solution, lines 78-87.                                      *)
(***************************************************************************)
\* ploidy_inputs: one --ploidyRun<p>=<d> per entry of ploidy_outdirs
ploidy_inputs(outdirs) == [i \in DOMAIN outdirs |-> <<"--ploidyRun", outdirs[i][1], outdirs[i][2]>>]

\* optimalClusters.txt exists: it is returned as it is
RunSelectSolutionExists ==
    /\ pc = "select_solution"
    /\ file_exists(fs["optimalClusters.txt"])
    /\ pc' = "sv_list"
    /\ UNCHANGED <<Inputs, items, vcf_text, Disk, Temp, Loop, inflight, ret, outcome, Log, Budget>>

\* otherwise the with-block of file_transaction is entered
RunSelectSolutionTx ==
    /\ pc = "select_solution"
    /\ ~file_exists(fs["optimalClusters.txt"])
    /\ tx' = file_transaction_enter(clock)
    /\ pc' = "select_do_run"
    /\ UNCHANGED <<Inputs, items, vcf_text, Disk, tmp_dir, stale_tmp, Loop, inflight, ret, outcome,
                   Log, Budget>>

\* the command is made of ploidy_outdirs and do.run starts
\* titanCNA_selectSolution.R, which writes to the transaction's file
RunSelectSolutionStart ==
    /\ pc = "select_do_run"
    /\ tx' = Partial(clock)
    /\ sel_calls' = Append(sel_calls, ploidy_inputs(ploidy_outdirs))
    /\ inflight' = inflight \cup {<<"titanCNA_selectSolution.R", Cur>>}
    /\ pc' = "selector_wait"
    /\ UNCHANGED <<Inputs, items, vcf_text, Disk, tmp_dir, stale_tmp, Loop, ret, outcome, calls, failed,
                   written, moved, prev, given, Budget>>

\* the selector exits with success and the transaction moves its file into place
SelectorSucceeds ==
    /\ pc = "selector_wait"
    /\ fs' = [fs EXCEPT !["optimalClusters.txt"] = Complete(clock)]
    /\ \E c \in Cells : solution' = c
    /\ clock' = clock + 1
    /\ UNCHANGED moved
    /\ written' = written \cup {<<Top, "optimalClusters.txt">>}
    /\ tx' = file_transaction_exit
    /\ inflight' = inflight \ {<<"titanCNA_selectSolution.R", Cur>>}
    /\ pc' = "sv_list"
    /\ UNCHANGED <<Inputs, items, vcf_text, cnr, cell_fs, dirs, tmp_dir, stale_tmp, Loop, ret, outcome,
                   calls, failed, sel_calls, prev, given, Budget>>

\* the selector exits with failure: do.run raises, the transaction drops its file
SelectorFails ==
    /\ pc = "selector_wait"
    /\ faults < MaxFaults
    /\ faults' = faults + 1
    /\ failed' = failed \cup {<<"selector", Cur>>}
    /\ EndRun("select_failed", NoReturn)
    /\ LeaveWithBlocks
    /\ UNCHANGED <<Inputs, items, vcf_text, Disk, stale_tmp, Loop, calls, sel_calls, written, moved, prev, given, runs,
                   touches>>

(***************************************************************************)
(* _finalize_sv and _segs_to_vcf, lines 49-65 and 160-182.                 *)
(***************************************************************************)
\* out = {"variantcaller": "titancna", ..., "vrn_file": _segs_to_vcf(...)}: the
\* result of the solution, its variant file being what bgzip_and_index returns;
\* purity, ploidy, cellular_prevalence and plot repeat what the selector wrote
TitanCall(sample, sol) ==
    LET out_file == segs_vcf(sample, sol[1], sol[2]) IN
    [variantcaller |-> "titancna",
     subclones |-> out_file[1][2] \o "/" \o cluster_dir(sample, sol[2]) \o ".segs.txt",
     vrn_file |-> out_file[1][2] \o "/" \o out_file[2] \o ".gz"]

\* the solution is read, and <path>.segs.vcf.gz or <path>.segs.vcf exists:
\* nothing is written
SegsToVcfExists ==
    /\ pc = "finalize_sv"
    /\ file_exists(cell_fs[solution]["segs.vcf.gz"]) \/ file_exists(cell_fs[solution]["segs.vcf"])
    /\ pc' = "bgzip"
    /\ UNCHANGED <<Inputs, items, vcf_text, Disk, Temp, Loop, inflight, ret, outcome, Log, Budget>>

\* neither exists: the transaction is entered and open(in_file) needs the path
\* of <path>.segs.txt to be there, whatever the file holds; then the
\* transaction's file is opened for writing
SegsToVcfOpen ==
    /\ pc = "finalize_sv"
    /\ ~file_exists(cell_fs[solution]["segs.vcf.gz"])
    /\ ~file_exists(cell_fs[solution]["segs.vcf"])
    /\ IF path_exists(cell_fs[solution]["segs.txt"])
       THEN /\ tx' = Partial(clock)
            /\ pc' = "vcf_write"
            /\ UNCHANGED <<outcome, ret, tmp_dir, inflight>>
       ELSE EndRun("io_error", NoReturn) /\ LeaveWithBlocks
    /\ UNCHANGED <<Inputs, items, vcf_text, Disk, stale_tmp, Loop, Log, Budget>>

\* a line of the table that was cut within the value of the last column the
\* loop reads: the value is there in part
cut_rows(row) ==
    UNION {{[row EXCEPT ![col] = SubSeq(row[col], 1, k)] : k \in 1..(Len(row[col]) - 1)} :
              col \in SegColumns}

\* what the loop of _segs_to_vcf gets from the file f of the table: every line
\* of a complete file; nothing of an empty one (readline gives "" and there is
\* no line); of a file that was cut, the lines that are whole, and then either
\* nothing more, or a line that lacks a column the loop reads (KeyError), or a
\* line whose last value is cut
segs_read(f, table) ==
    IF f.st = "complete" THEN {[rows |-> table, key_error |-> FALSE]}
    ELSE IF f.st = "empty" THEN {[rows |-> <<>>, key_error |-> FALSE]}
    ELSE {[rows |-> SubSeq(table, 1, n), key_error |-> FALSE] : n \in 0..Len(table)}
         \cup {[rows |-> SubSeq(table, 1, n), key_error |-> TRUE] : n \in 0..(Len(table) - 1)}
         \cup UNION {{[rows |-> Append(SubSeq(table, 1, n), cut), key_error |-> FALSE] :
                         cut \in cut_rows(table[n + 1])} : n \in 0..(Len(table) - 1)}

\* the header, the column line and one row per line read are written; a line
\* without a column the loop reads raises KeyError and the transaction drops
\* its file, otherwise the transaction moves the file to <path>.segs.vcf
SegsToVcfCommit ==
    /\ pc = "vcf_write"
    /\ \E r \in segs_read(cell_fs[solution]["segs.txt"], segs) :
          IF r.key_error
          THEN /\ EndRun("key_error", NoReturn)
               /\ LeaveWithBlocks
               /\ UNCHANGED <<vcf_text, cell_fs, clock, written>>
          ELSE /\ vcf_text' = segs_to_vcf_text(r.rows, sample_name)
               /\ cell_fs' = [cell_fs EXCEPT ![solution]["segs.vcf"] = Complete(clock)]
               /\ clock' = clock + 1
               /\ written' = written \cup {<<solution, "segs.vcf">>}
               /\ tx' = file_transaction_exit
               /\ pc' = "bgzip"
               /\ UNCHANGED <<tmp_dir, inflight, ret, outcome>>
    /\ UNCHANGED <<Inputs, items, cnr, fs, dirs, solution, stale_tmp, Loop,
                   calls, failed, sel_calls, moved, prev, given, Budget>>

\* vcfutils.bgzip_and_index: <path>.segs.vcf becomes <path>.segs.vcf.gz
bgzip_and_index(files, t) ==
    IF file_exists(files["segs.vcf"])
    THEN [files EXCEPT !["segs.vcf.gz"] = Complete(t), !["segs.vcf"] = Absent]
    ELSE files

BgzipAndIndex ==
    /\ pc = "bgzip"
    /\ cell_fs' = [cell_fs EXCEPT ![solution] = bgzip_and_index(@, clock)]
    /\ clock' = IF file_exists(cell_fs[solution]["segs.vcf"]) THEN clock + 1 ELSE clock
    /\ written' = IF file_exists(cell_fs[solution]["segs.vcf"])
                  THEN written \cup {<<solution, "segs.vcf.gz">>}
                  ELSE written
    /\ pc' = "attach"
    /\ UNCHANGED <<Inputs, items, vcf_text, cnr, fs, dirs, solution, Temp, Loop, inflight, ret,
                   outcome, calls, failed, sel_calls, moved, prev, given, Budget>>

(***************************************************************************)
(* run(items), lines 40-47.                                                *)
(***************************************************************************)
\* the place of the tumor in the list, and the list with the tumor replaced:
\* paired.tumor_data is the dict of the caller's list, changed where it is
TumorIndex(its) == CHOOSE i \in DOMAIN its : its[i].phenotype = "tumor"
with_tumor(its, tumor) == [its EXCEPT ![TumorIndex(its)] = tumor]

\* if "sv" not in paired.tumor_data: paired.tumor_data["sv"] = []
init_sv(tumor) ==
    IF tumor.has_sv THEN tumor ELSE [tumor EXCEPT !.has_sv = TRUE, !.sv = <<>>]

\* variant: the "sv" list is set to the new result alone
attach_sv_overwrite(tumor, call) == [tumor EXCEPT !.sv = <<call>>]

\* paired.tumor_data["sv"].append(...)
attach_sv(tumor, call) == [tumor EXCEPT !.sv = Append(@, call)]

\* out: the normal, if there is one, then the tumor with the result appended
run_out(its, call) ==
    LET paired == get_paired(its) IN
    (IF paired.has_normal THEN <<ByPhenotype(its, "normal")>> ELSE <<>>)
        \o <<attach_sv(paired.tumor_data, call)>>

\* lines 40-44, before _finalize_sv is called: out gets the normal and the tumor
\* of the caller's list gets an "sv" list if it has none
InitSvList ==
    /\ pc = "sv_list"
    /\ items' = with_tumor(items, init_sv(get_paired(items).tumor_data))
    /\ pc' = "finalize_sv"
    /\ UNCHANGED <<Inputs, vcf_text, Disk, Temp, Loop, inflight, ret, outcome, Log, Budget>>

\* lines 45-47, once _finalize_sv is back: its result is appended to the "sv"
\* list of the caller's tumor, and out is returned
AttachAndReturn ==
    /\ pc = "attach"
    /\ items' = with_tumor(items, attach_sv(get_paired(items).tumor_data,
                                            TitanCall(sample_name, solution)))
    /\ EndRun("done", Return(FALSE, run_out(items, TitanCall(sample_name, solution))))
    /\ UNCHANGED <<Inputs, vcf_text, Disk, Temp, Loop, Log, Budget>>

(***************************************************************************)
(* The environment.                                                        *)
(***************************************************************************)
\* between two runs the upstream normalization rewrites the .cnr input
TouchCnr ==
    /\ pc = "idle"
    /\ runs > 0 /\ runs < MaxRuns
    /\ touches < MaxTouches
    /\ touches' = touches + 1
    /\ cnr' = clock
    /\ clock' = clock + 1
    /\ outcome' = [outcome EXCEPT !.touched = TRUE]
    /\ UNCHANGED <<Inputs, items, vcf_text, fs, cell_fs, dirs, solution, Temp, pc, Loop, inflight, ret,
                   Log, runs, faults>>

\* the process is killed: nothing is cleaned up, temporaries stay behind, and
\* what it had changed in its items is gone with it: the caller has the list
\* it handed over
Crash ==
    /\ pc # "idle"
    /\ faults < MaxFaults
    /\ faults' = faults + 1
    /\ failed' = failed \cup {<<"crash", Cur>>}
    /\ pc' = "idle"
    /\ outcome' = [kind |-> "crashed", cell |-> Cur, touched |-> FALSE]
    /\ ret' = NoReturn
    /\ stale_tmp' = (stale_tmp \/ path_exists(tx) \/ tmp_dir.exists)
    /\ tx' = Absent
    /\ tmp_dir' = NoTmpDir
    /\ inflight' = {}
    /\ items' = given
    /\ UNCHANGED <<Inputs, vcf_text, Disk, Loop, calls, sel_calls, written, moved, prev, given, runs, touches>>

Run ==
    \/ StartRun \/ GetPaired \/ SvWorkdir
    \/ TitanCnFileUptodate \/ TitanCnFileOpen \/ TitanCnFileCommit
    \/ TitanHetFile \/ ShouldRun
    \/ RunTitancnaMakedir \/ RunTitancnaUptodate \/ RunTitancnaTmpdir \/ DoRunTitan
    \/ SolverSucceeds \/ SolverSucceedsWithoutPlot \/ SolverFails
    \/ MoveArtifact \/ MoveArtifactCopy \/ MoveArtifactCopying \/ MoveArtifactCopied
    \/ MoveRplots \/ MoveRplotsCopy \/ MoveRplotsCopying \/ MoveRplotsCopied
    \/ TxTmpdirExit \/ RunTitancnaReturn
    \/ RunSelectSolutionExists \/ RunSelectSolutionTx \/ RunSelectSolutionStart
    \/ SelectorSucceeds \/ SelectorFails
    \/ SegsToVcfExists \/ SegsToVcfOpen \/ SegsToVcfCommit
    \/ InitSvList \/ BgzipAndIndex \/ AttachAndReturn

Next == Run \/ TouchCnr

Spec == Init /\ [][Next]_vars

\* the same runs, with a process that may be killed at any step
NextCrash == Next \/ Crash

SpecCrash == Init /\ [][NextCrash]_vars

\* between two runs the het-site table is written anew by something else; no
\* check of run() reads its modification time
TouchHet ==
    /\ pc = "idle"
    /\ runs > 0 /\ runs < MaxRuns
    /\ touches < MaxTouches
    /\ file_exists(fs["het"])
    /\ touches' = touches + 1
    /\ fs' = [fs EXCEPT !["het"] = Complete(clock)]
    /\ clock' = clock + 1
    /\ UNCHANGED <<Inputs, items, vcf_text, cnr, cell_fs, dirs, solution, Temp, pc, Loop, inflight, ret,
                   outcome, Log, runs, faults>>

\* the runs, with either of the two inputs of the sweep made newer between them
NextHet == Next \/ TouchHet

SpecHet == Init /\ [][NextHet]_vars

(***************************************************************************)
(* The runs on a work directory that starts empty, in which nothing fails,  *)
(* for every segment table the solution may hold.                           *)
(***************************************************************************)
InitVcf ==
    /\ items = <<Tumor(FALSE, <<>>)>>
    /\ vrn_files = <<[variantcaller |-> "vardict"]>>
    /\ het_sites = MaxHetSites
    /\ segs \in SegTables
    /\ vcf_text = NotWritten
    /\ InitWorkDir

NextVcf ==
    \/ StartRun \/ GetPaired \/ SvWorkdir
    \/ TitanCnFileUptodate \/ TitanCnFileOpen \/ TitanCnFileCommit
    \/ TitanHetFile \/ ShouldRun
    \/ RunTitancnaMakedir \/ RunTitancnaUptodate \/ RunTitancnaTmpdir
    \/ DoRunTitan \/ SolverSucceeds
    \/ MoveArtifact \/ MoveArtifactCopy \/ MoveArtifactCopying \/ MoveArtifactCopied
    \/ MoveRplots \/ MoveRplotsCopy \/ MoveRplotsCopying \/ MoveRplotsCopied
    \/ TxTmpdirExit \/ RunTitancnaReturn
    \/ RunSelectSolutionExists \/ RunSelectSolutionTx \/ RunSelectSolutionStart
    \/ SelectorSucceeds
    \/ InitSvList \/ SegsToVcfExists \/ SegsToVcfOpen \/ SegsToVcfCommit
    \/ BgzipAndIndex \/ AttachAndReturn

SpecVcf == InitVcf /\ [][NextVcf]_vars

(***************************************************************************)
(* Properties.                                                             *)
(***************************************************************************)
Before(c, d) == CellIndex(c) < CellIndex(d)
Ended(kind) == pc = "idle" /\ outcome.kind = kind
InSweep == pc \in {"run_titancna", "titan_uptodate", "do_run", "solver_wait", "glob_move",
                   "tmpdir_exit", "run_titancna_return"}
AfterSweep == pc \in {"select_solution", "select_do_run", "selector_wait", "sv_list", "finalize_sv", "vcf_write",
                      "bgzip", "attach"}
NoToolRan == calls = NoCalls /\ sel_calls = <<>>
NoTranslation == \A c \in Cells : \A f \in VcfFiles : <<c, f>> \notin written
AllPloidyRuns ==
    [i \in DOMAIN Ploidies |->
        <<"--ploidyRun", Ploidies[i], PloidyDir(Ploidies[i])>>]

\* C1 (gating): a het-site file of a header and fewer than 2 data rows makes run
\* return the items it was given with no solver run, no selector run and no
\* translation; with 2 or more data rows a run that returns went through all 9
\* cells, the selection and the translation.
Gating ==
    /\ (InSweep \/ AfterSweep) => het_sites >= 2
    /\ Ended("skipped") =>
          /\ het_sites < 2
          /\ ret = Return(TRUE, items)
          /\ NoToolRan /\ NoTranslation
          /\ ploidy_outdirs = <<>>
    /\ (pc = "idle" /\ ret.returned /\ get_paired(items).paired /\ het_sites >= 2) =>
          /\ outcome.kind = "done"
          /\ Len(ploidy_outdirs) = Len(Ploidies)
          /\ \A c \in Cells : titan_uptodate(cell_fs[c]["titan.txt"], fs["cn"])
          /\ file_exists(fs["optimalClusters.txt"])
          /\ file_exists(cell_fs[solution]["segs.vcf.gz"])

GatingWitness == Ended("skipped") /\ het_sites = 1 /\ ret.same

\* C2 (idempotence): once the copy-number file, a sweep cell or the selection has
\* completed, a run with unchanged inputs does not produce it again: no .cn
\* rewrite, no solver run for a cell the run before went past, and after a
\* complete run no solver run, no selector run and no write at all.
Idempotence ==
    (runs >= 2 /\ ~prev.touched) =>
        /\ prev.kind \in {"done", "solver_failed", "move_failed", "select_failed"} =>
              <<Top, "cn">> \notin written
        /\ prev.kind \in {"solver_failed", "move_failed"} =>
              \A c \in Cells : Before(c, prev.cell) => calls[c] = 0
        /\ prev.kind \in {"done", "select_failed"} => calls = NoCalls
        /\ prev.kind = "done" => (sel_calls = <<>> /\ written = {})
        /\ (prev.kind = "done" /\ Ended("done")) => ploidy_outdirs = 
              [i \in DOMAIN Ploidies |-> <<Ploidies[i], PloidyDir(Ploidies[i])>>]

IdempotenceWitness == runs >= 2 /\ ~prev.touched /\ prev.kind = "done" /\ Ended("done")

\* C3 (sweep scenario): the first run on an empty work directory, when no tool
\* fails, runs the solver once for each of the 9 cells, leaves 9 sentinels and
\* calls the selector once with one --ploidyRun flag per ploidy, naming what the
\* cell of the last cluster count returned; optimalClusters.txt is there.
SweepScenario ==
    (runs = 1 /\ Ended("done")) =>
        /\ \A c \in Cells : calls[c] = 1
        /\ \A c \in Cells : file_exists(cell_fs[c]["titan.txt"])
        /\ Cardinality({c \in Cells : <<c, "titan.txt">> \in written}) =
              Len(Ploidies) * Len(NumClusters)
        /\ Len(sel_calls) = 1
        /\ sel_calls[1] = AllPloidyRuns
        /\ \A i \in DOMAIN Ploidies :
              sel_calls[1][i][3] =
                  run_titancna_result(Ploidies[i], NumClusters[Len(NumClusters)])
        /\ file_exists(fs["optimalClusters.txt"])
        /\ <<Top, "optimalClusters.txt">> \in written

SweepScenarioWitness == runs = 1 /\ Ended("done") /\ Len(sel_calls) = 1

\* C4 (fail-fast sweep): when the solver of a cell exits with failure the run is
\* over at once with the error: no later cell runs, the failed cell is not tried
\* again, the selector does not run, no variant file is written, nothing is
\* attached to the items and nothing is returned.
FailFast ==
    \A k \in Cells :
        <<"solver", k>> \in failed =>
            /\ pc = "idle"
            /\ ~ret.returned
            /\ items = given
            /\ calls[k] = 1
            /\ \A c \in Cells : Before(k, c) => calls[c] = 0
            /\ sel_calls = <<>>
            /\ NoTranslation

FailFastWitness ==
    /\ Ended("solver_failed")
    /\ outcome.cell = <<Ploidies[2], NumClusters[2]>>
    /\ calls[<<Ploidies[1], NumClusters[1]>>] = 1

\* C5 (partial-write protection): every output gets to its final path by a
\* rename of a finished temporary, so whatever the point a run was at when the
\* process was killed, no final path holds a partly written file that a later
\* run finds with file_exists or file_uptodate.
PartialWriteProtection ==
    /\ \A f \in TopFiles : fs[f].st \in {"absent", "complete"}
    /\ pc = "idle" =>
          \A c \in Cells : \A f \in PrefixFiles : cell_fs[c][f].st \in {"absent", "complete"}

\* C6 (output payload): a complete run returns the normal, if there is one, as it
\* was given, then the tumor, whose only change is one result of variantcaller
\* titancna appended to its sv list (made empty first when it had none, the
\* entries it had kept in order); a run that skips returns the list it was given
\* with no sv list changed.
OutputPayload ==
    LET paired == get_paired(given)
        tumor == paired.tumor_data
        old_sv == IF tumor.has_sv THEN tumor.sv ELSE <<>>
        out == ret.value
        n == Len(out)
    IN  /\ Ended("done") =>
            /\ ret.returned
            /\ n = (IF paired.has_normal THEN 2 ELSE 1)
            /\ paired.has_normal =>
                  /\ out[1] = Normal
                  /\ out[1] \in {given[i] : i \in DOMAIN given}
                  /\ out[1] \in {items[i] : i \in DOMAIN items}
            /\ out[n] = [tumor EXCEPT !.has_sv = TRUE, !.sv = out[n].sv]
            /\ out[n] = get_paired(items).tumor_data
            /\ Len(out[n].sv) = Len(old_sv) + 1
            /\ SubSeq(out[n].sv, 1, Len(old_sv)) = old_sv
            /\ out[n].sv[Len(old_sv) + 1].variantcaller = "titancna"
        /\ (Ended("unpaired") \/ Ended("skipped")) =>
              (ret.same /\ ret.value = items /\ items = given)
        /\ ret.same => ret.value = given

OutputPayloadWitness ==
    /\ Ended("done")
    /\ Len(ret.value) = 2
    /\ Len(given[1].sv) = 1
    /\ Len(ret.value[2].sv) = 2
    /\ ret.value[2].sv[1] = ExistingCall

ExpectedType ==
    [call \in TitanCalls |->
        CASE call = "HOMD" -> "DEL" [] call = "DLOH" -> "DEL"
          [] call = "ALOH" -> "DUP" [] call = "GAIN" -> "DUP" [] call = "ASCNA" -> "DUP"
          [] call = "BCNA" -> "DUP" [] call = "UBCNA" -> "DUP"
          [] call = "NLOH" -> "LOH"
          [] call = "HET" -> "CNV"]

\* C7 (classification): the VCF has one row per segment row; its ALT is the type
\* of the table in angle brackets (DEL for HOMD and DLOH, DUP for ALOH, GAIN,
\* ASCNA, BCNA and UBCNA, LOH for NLOH, CNV for HET and for any other code), its
\* SVTYPE is that type and its genotype is 0/1.
Classification ==
    vcf_text # NotWritten =>
        /\ Len(vcf_text.rows) = Len(segs)
        /\ \A i \in DOMAIN segs :
              LET call == segs[i]["TITAN_call"]
                  type == IF call \in TitanCalls THEN ExpectedType[call] ELSE "CNV"
                  row == vcf_text.rows[i]
              IN  /\ row.out[5] = "<" \o type \o ">"
                  /\ \E j \in DOMAIN row.info : row.info[j] = <<"SVTYPE", type>>
                  /\ \A j \in DOMAIN row.info : row.info[j][1] = "SVTYPE" => row.info[j][2] = type
                  /\ row.out[Len(row.out)] = "0/1"
                  /\ row.out[9] = "GT"

ClassificationWitness ==
    /\ vcf_text # NotWritten
    /\ Len(segs) = 2
    /\ segs[1]["TITAN_call"] = "DLOH" /\ vcf_text.rows[1].out[5] = "<DEL>"
    /\ segs[2]["TITAN_call"] = "XYZ" /\ vcf_text.rows[2].out[5] = "<CNV>"

\* C8 (precondition failures): without a tumor run returns before any directory
\* or file is made and before any tool runs; with a tumor and no variant-call
\* source the assertion of _titan_het_file ends the run with an error before any
\* cell, selection or translation.
Preconditions ==
    /\ ~get_paired(items).paired =>
          /\ dirs = {}
          /\ \A f \in TopFiles : ~file_exists(fs[f])
          /\ \A c \in Cells : \A f \in PrefixFiles : ~file_exists(cell_fs[c][f])
          /\ NoToolRan /\ written = {} /\ inflight = {}
          /\ pc \in {"idle", "get_paired"}
    /\ Ended("unpaired") => ret = Return(TRUE, items)
    /\ (get_paired(items).paired /\ vrn_files = <<>>) =>
          /\ ~InSweep /\ ~AfterSweep /\ pc # "should_run"
          /\ NoToolRan /\ NoTranslation
          /\ ~ret.returned
          /\ ~file_exists(fs["het"])
    /\ Ended("assertion_error") => (vrn_files = <<>> /\ ~ret.returned)

PreconditionsWitness ==
    /\ Ended("assertion_error")
    /\ file_exists(fs["cn"])
    /\ runs = 2

\* C9 (stage ordering): the cells are worked through in the order of the two
\* loops, one solver at a time; the selector runs only once every cell has a
\* fresh sentinel; the translation starts only once the selector is back and
\* optimalClusters.txt is there.
StageOrdering ==
    /\ Cardinality(inflight) <= 1
    /\ InSweep =>
          /\ \A c \in Cells : Before(c, Cur) => titan_uptodate(cell_fs[c]["titan.txt"], fs["cn"])
          /\ \A c \in Cells : Before(Cur, c) => calls[c] = 0
          /\ sel_calls = <<>> /\ NoTranslation
          /\ inflight \subseteq {<<"titanCNA.R", Cur>>}
          /\ Len(ploidy_outdirs) = pi - 1
    /\ AfterSweep =>
          /\ \A c \in Cells : titan_uptodate(cell_fs[c]["titan.txt"], fs["cn"])
          /\ Len(ploidy_outdirs) = Len(Ploidies)
    /\ pc \in {"select_solution", "selector_wait"} => NoTranslation
    /\ pc \in {"sv_list", "finalize_sv", "vcf_write", "bgzip", "attach"} =>
          /\ file_exists(fs["optimalClusters.txt"])
          /\ inflight = {}
    /\ ~NoTranslation => file_exists(fs["optimalClusters.txt"])

StageOrderingWitness ==
    /\ pc = "vcf_write"
    /\ calls[<<Ploidies[1], NumClusters[1]>>] = 0
    /\ calls[<<Ploidies[3], NumClusters[3]>>] = 1
    /\ Len(sel_calls) = 1

\* C10 (resumability): after a run that ended with a solver failure at cell k, a
\* run with unchanged inputs in which no tool fails invokes the solver for no
\* cell before k, once for k and once for each later cell, and goes on to the
\* selection and the translation; the failed solver run left nothing of its cell
\* in the ploidy directory.
Resumability ==
    /\ Ended("solver_failed") =>
          \A f \in CellFiles : <<outcome.cell, f>> \notin written
    /\ (runs >= 2 /\ prev.kind = "solver_failed" /\ ~prev.touched) =>
          /\ \A c \in Cells : Before(c, prev.cell) => calls[c] = 0
          /\ (pc = "idle" /\ failed = {}) =>
                /\ outcome.kind = "done"
                /\ \A c \in Cells : ~Before(c, prev.cell) => calls[c] = 1

\* C11 (scoped temporary directory): a cell that is executed gets an empty
\* directory of its own, which is there exactly from the entry of the with-block
\* of tx_tmpdir to its end, while the solver is started, runs and its outputs are
\* moved, and is gone when _run_titancna is left, by its return, by the failure
\* of the solver or by a failure of a move; nothing is moved to the ploidy
\* directory before the solver has come back with success.
ScopedTmpDir ==
    /\ tmp_dir.exists <=> pc \in {"do_run", "solver_wait", "glob_move", "tmpdir_exit"}
    /\ pc \in {"do_run", "solver_wait"} =>
          /\ tmp_dir.files = {}
          /\ \A f \in CellFiles : <<Cur, f>> \notin written
    /\ \A c \in Cells :
          /\ <<"titanCNA.R", c>> \in inflight => (c = Cur /\ tmp_dir.exists)
          /\ (\E f \in CellFiles : <<c, f>> \in written) =>
                (calls[c] > 0 /\ <<"solver", c>> \notin failed)
    /\ pc = "glob_move" =>
          \A f \in SolverOutputs : f \in tmp_dir.files \/ <<Cur, f>> \in written

ScopedTmpDirWitness ==
    /\ Ended("move_failed")
    /\ ~tmp_dir.exists
    /\ calls[outcome.cell] = 1
    /\ prev.kind = "solver_failed"
    /\ runs >= 2

\* the file was there before this run started
Preexisting(f) == file_exists(fs[f]) /\ <<Top, f>> \notin written
PreexistingVcf ==
    /\ solution \in Cells
    /\ file_exists(cell_fs[solution]["segs.vcf.gz"])
    /\ <<solution, "segs.vcf.gz">> \notin written

\* C12 (create-once artifacts): the selector is invoked exactly when
\* optimalClusters.txt does not exist and the translation writes exactly when
\* neither <prefix>.vcf nor <prefix>.vcf.gz exists, with no look at modification
\* times; so a run in which cells are executed again because the .cn file is newer
\* than their sentinels returns, with the optimalClusters.txt and the variant file
\* that were there, no selector run and no translation.
CreateOnce ==
    /\ pc = "selector_wait" => ~file_exists(fs["optimalClusters.txt"])
    /\ pc \in {"sv_list", "finalize_sv", "vcf_write", "bgzip", "attach"} =>
          (sel_calls = <<>> <=> Preexisting("optimalClusters.txt"))
    /\ pc = "vcf_write" =>
          (~file_exists(cell_fs[solution]["segs.vcf"])
              /\ ~file_exists(cell_fs[solution]["segs.vcf.gz"]))
    /\ pc = "bgzip" => (<<solution, "segs.vcf">> \notin written <=> PreexistingVcf)
    /\ (/\ pc = "idle" /\ runs >= 2 /\ failed = {}
        /\ Preexisting("optimalClusters.txt") /\ PreexistingVcf
        /\ \E c \in Cells : calls[c] > 0) =>
          /\ outcome.kind = "done"
          /\ ret.returned
          /\ sel_calls = <<>>
          /\ NoTranslation

\* the final paths a cell's moves write, for each sample of the inputs
SampleNames == {get_paired(its).tumor_data.name : its \in InputItems}
FinalPath ==
    [s \in SampleNames |-> [c \in Cells |-> [f \in CellFiles |->
        IF f = "Rplots.pdf" THEN rplots_dest(s, c[1], c[2])
        ELSE glob_move_dest(s, c[1], c[2], f)]]]
FinalPaths == [s \in SampleNames |-> [c \in Cells |-> {FinalPath[s][c][f] : f \in CellFiles}]]
DisjointPaths ==
    \A s \in SampleNames : \A c, d \in Cells :
        /\ c # d => FinalPaths[s][c] \cap FinalPaths[s][d] = {}
        /\ segs_vcf(s, c[1], c[2]) \notin FinalPaths[s][d]

\* C13 (no cross-cell collision): two distinct cells of a sample write disjoint
\* sets of final paths, so whatever cells have been executed, every destination a
\* move reached is a path of the moving cell alone, reached by that cell only,
\* and every file of a cell in its ploidy directory was put there by that cell.
NoCollision ==
    /\ DisjointPaths
    /\ \A m \in moved :
          /\ m[1] \in FinalPaths[sample_name][m[2]]
          /\ \A n \in moved : n[1] = m[1] => n[2] = m[2]
    /\ \A c \in Cells : \A f \in CellFiles :
          path_exists(cell_fs[c][f]) <=> <<FinalPath[sample_name][c][f], c>> \in moved

NoCollisionWitness ==
    /\ pc = "select_solution"
    /\ Cardinality(moved) = Cardinality(Cells) * Cardinality(CellFiles)
    /\ Cardinality({m[1] : m \in moved}) = Cardinality(moved)
    /\ <<rplots_dest("S1", 2, 1), <<2, 1>>>> \in moved
    /\ <<rplots_dest("S1", 2, 3), <<2, 3>>>> \in moved

\* the cell the sweep was at before c
PrevCell(c) == CHOOSE d \in Cells : CellIndex(d) = CellIndex(c) - 1

\* C14 (return value of a cell): what _run_titancna returns is the directory of
\* its ploidy, whatever the cluster count and whether the cell was skipped or
\* executed; so the entries of ploidy_outdirs and the directories the selector
\* is given are one per ploidy, pairwise different, and equal to what any cell
\* of that ploidy returns.
ReturnByPloidy ==
    /\ \A c, d \in Cells :
          (c[1] = d[1]) <=> (run_titancna_result(c[1], c[2]) = run_titancna_result(d[1], d[2]))
    /\ (pc = "run_titancna" /\ CellIndex(Cur) > 1) => out_dir = PloidyDir(PrevCell(Cur)[1])
    /\ AfterSweep => out_dir = PloidyDir(Ploidies[Len(Ploidies)])
    /\ \A i \in DOMAIN ploidy_outdirs :
          /\ ploidy_outdirs[i][1] = Ploidies[i]
          /\ ploidy_outdirs[i][2] = PloidyDir(Ploidies[i])
          /\ \A k \in DOMAIN NumClusters :
                ploidy_outdirs[i][2] = run_titancna_result(Ploidies[i], NumClusters[k])
          /\ \A j \in DOMAIN ploidy_outdirs : j # i => ploidy_outdirs[j][2] # ploidy_outdirs[i][2]
    /\ \A n \in DOMAIN sel_calls :
          /\ Len(sel_calls[n]) = Len(Ploidies)
          /\ \A i, j \in DOMAIN sel_calls[n] :
                /\ sel_calls[n][i][3] = PloidyDir(Ploidies[i])
                /\ i # j => sel_calls[n][i][3] # sel_calls[n][j][3]

ReturnByPloidyWitness ==
    /\ pc = "selector_wait"
    /\ Len(sel_calls) = 1
    /\ calls[<<Ploidies[1], NumClusters[Len(NumClusters)]>>] = 0
    /\ calls[<<Ploidies[2], NumClusters[Len(NumClusters)]>>] = 1
    /\ Cardinality({sel_calls[1][i][3] : i \in DOMAIN sel_calls[1]}) = Len(Ploidies)

\* C15 (completion invariant): between runs that ended by a return or by a raised
\* error, a cell whose sentinel is in the ploidy directory and fresh, so that the
\* cell will be skipped, has its renamed plot and its other artifacts there too;
\* a solver that succeeds without an Rplots.pdf does not leave the cell complete.
CompletionInvariant ==
    pc = "idle" =>
        \A c \in Cells :
            titan_uptodate(cell_fs[c]["titan.txt"], fs["cn"]) =>
                /\ \A f \in CellFiles : file_exists(cell_fs[c][f])
                /\ <<"no_plot", c>> \notin failed

\* the sentinel of c was there before this run started and is older than the .cn
StaleSince(c) ==
    /\ file_exists(cell_fs[c]["titan.txt"])
    /\ <<c, "titan.txt">> \notin written
    /\ cell_fs[c]["titan.txt"].mt < fs["cn"].mt

HeaderRecordConsistency ==
    vcf_text # NotWritten =>
        \A i \in DOMAIN vcf_text.rows :
            LET row == vcf_text.rows[i] IN
            /\ \E h \in vcf_text.header : h[1] = "ALT" /\ row.out[5] = "<" \o h[2] \o ">"
            /\ \A j \in DOMAIN row.info : <<"INFO", row.info[j][1]>> \in vcf_text.header

====
